---- MODULE Spec2Model ----
(***************************************************************************)
(* Model of the multi-timeframe mean-reversion pipeline of ta_learning:    *)
(*   core/methods/multi_mean_reversion.py : multi_tf_filter                *)
(*   core/methods/mean_reversion.py       : analyze (the 15-min trigger)   *)
(*   core/backtest.py                     : backtest_signals               *)
(*   core/methods/multi_mean_reversion.py : trend_analyze (daily trend)    *)
(*   core/indicators/moving_averages.py   : sma                            *)
(* A dataframe is a record of columns; a column is a sequence with one     *)
(* value per bar.  The 15-minute index is 1..Len; the hourly index is      *)
(* 1..Len(hourly_df.zone), and align[t] is the number of hourly rows whose *)
(* timestamp is <= the timestamp of 15-minute bar t (0: none yet).         *)
(* Prices are integers; the float comparisons of the code against          *)
(* entry_price * 1.02, 0.98, 0.99, 1.01 are made exactly in hundredths     *)
(* (they agree with IEEE doubles on every price of Prices).  The equity    *)
(* curve is kept as an exact fraction in lowest terms.                     *)
(***************************************************************************)
EXTENDS Integers, Sequences, FiniteSets, TLC

\* ------------------------------------------------------------------ bounds
\* Largest number of 15-minute bars of a series.
MaxBars == 3
\* Close prices a bar may take.
Prices == {98, 100, 101, 102}
\* Values of the hourly reference column (BB_M_* / SMA_*), NaN in warm-up.
RefLevel == 101
\* Closes and the hourly reference level of the wide-move pipeline.
WidePrices == {3, 5, 7}
WideRefLevel == 5
\* Largest number of daily bars, and largest look-back window, of trend_analyze.
MaxDaily == 4
MaxWindow == 3

\* --------------------------------------------------------- program constants
\* pandas' missing value (shift(1) at the first row, reindex before the first
\* hourly row, rolling mean in warm-up); every comparison with it is False
\* except !=, which is True.
NaN == -9
\* Profit target in percent: entry_price * 1.02 / entry_price * 0.98.
ProfitPct == 2
\* Scale-in threshold in percent: threshold = 0.01.
ThresholdPct == 1
\* backtest_signals' default initial_capital.
InitialCapital == 1000

ExitReason == "Exit at hourly SMA or +-2% target"
BuyReason == "Price below SMA and RSI below oversold"
SellReason == "Price above SMA and RSI above overbought"
Zones == {"oversold", "overbought", "neutral"}
\* The missing value in the object-typed zone column.
NoZone == "NaN"
Signals == {-1, 0, 1}

VARIABLES
    m15_df,     \* the caller's 15-minute dataframe (mutated in place by multi_tf_filter)
    hourly_df,  \* the hourly dataframe: columns zone and, when present, BB_M
    align,      \* align[t]: hourly rows at or before 15-minute bar t
    m15_in,     \* the columns of m15_df as they were when multi_tf_filter was called
    position,   \* backtest_signals' position list
    equity,     \* the equity curve returned by backtest_signals
    pc,         \* "load" | "backtest" | "done"
    daily_df,   \* the daily dataframe: Close and, after trend_analyze, SMA and trend
    sma_window, \* trend_analyze's sma_window
    tpc         \* the daily frame: "load" | "done" (trend_analyze has returned)

pipeVars == <<m15_df, hourly_df, align, m15_in, position, equity, pc>>
trendVars == <<daily_df, sma_window, tpc>>
vars == <<m15_df, hourly_df, align, m15_in, position, equity, pc,
          daily_df, sma_window, tpc>>

\* ------------------------------------------------------------------ helpers
Idx(s) == 1..Len(s)
Abs(x) == IF x < 0 THEN -x ELSE x

\* Series.shift(1): the previous row's value, NaN at the first row.
Shift1(s) == [t \in Idx(s) |-> IF t = 1 THEN NaN ELSE s[t - 1]]

\* hourly column reindexed onto the 15-minute index with method="ffill": the
\* value of the last hourly row at or before the bar (NaN rows are not skipped),
\* the missing value (NaN) when the bar precedes every hourly row.
ReindexFfill(col, al, missing) ==
    [t \in Idx(al) |-> IF al[t] = 0 THEN missing ELSE col[al[t]]]

\* mean_reversion.analyze: the reason that accompanies each raw signal.
TriggerReason(sig) == IF sig = 1 THEN BuyReason ELSE IF sig = -1 THEN SellReason ELSE ""

\* ---------------------------------------------------------- multi_tf_filter
\* entry_signal = ((signal != signal.shift(1)) & (signal != 0)).astype(int) * signal
EntrySignal(signal) ==
    LET prev == Shift1(signal)
    IN  [t \in Idx(signal) |->
            IF signal[t] # prev[t] /\ signal[t] # 0 THEN signal[t] ELSE 0]

\* entry_price = Close.where(entry_signal != 0).ffill()
RECURSIVE EntryPriceAt(_, _, _)
EntryPriceAt(close, entry, t) ==
    IF t = 0 THEN NaN
    ELSE IF entry[t] # 0 THEN close[t]
    ELSE EntryPriceAt(close, entry, t - 1)

EntryPrice(close, entry) == [t \in Idx(close) |-> EntryPriceAt(close, entry, t)]

\* The hourly reference column: the first SMA_* column, else the first BB_M_*
\* column; absent when the hourly frame carries neither.
HasRefCol(hr) == "BB_M" \in DOMAIN hr

\* Float comparisons; False when either side is NaN.
GEq(a, b) == a # NaN /\ b # NaN /\ a >= b
LEq(a, b) == a # NaN /\ b # NaN /\ a <= b
\* Close >= entry_price * 1.02 and Close <= entry_price * 0.98
GEqTarget(c, e) == e # NaN /\ c * 100 >= e * (100 + ProfitPct)
LEqTarget(c, e) == e # NaN /\ c * 100 <= e * (100 - ProfitPct)
\* Close < entry_price * (1 - threshold) and Close > entry_price * (1 + threshold)
BelowThreshold(c, e) == e # NaN /\ c * 100 < e * (100 - ThresholdPct)
AboveThreshold(c, e) == e # NaN /\ c * 100 > e * (100 + ThresholdPct)

\* A slip in the exit step: the profit targets compared with > and < instead of
\* >= and <=.
ExitMaskStrictTarget(close, signal, entry_price, hr_sma) ==
    LET prev_pos == Shift1(signal)
    IN  [t \in Idx(close) |->
            \/ (prev_pos[t] = 1 /\ GEq(close[t], hr_sma[t]))
            \/ (prev_pos[t] = 1 /\ entry_price[t] # NaN
                  /\ close[t] * 100 > entry_price[t] * (100 + ProfitPct))
            \/ (prev_pos[t] = -1 /\ LEq(close[t], hr_sma[t]))
            \/ (prev_pos[t] = -1 /\ entry_price[t] # NaN
                  /\ close[t] * 100 < entry_price[t] * (100 - ProfitPct))]

\* exit_mask, computed from the raw signal's shift and the aligned reference.
ExitMask(close, signal, entry_price, hr_sma) ==
    LET prev_pos == Shift1(signal)
    IN  [t \in Idx(close) |->
            \/ (prev_pos[t] = 1 /\ GEq(close[t], hr_sma[t]))
            \/ (prev_pos[t] = 1 /\ GEqTarget(close[t], entry_price[t]))
            \/ (prev_pos[t] = -1 /\ LEq(close[t], hr_sma[t]))
            \/ (prev_pos[t] = -1 /\ LEqTarget(close[t], entry_price[t]))]

\* A slip in the validity filter: a missing zone taken as matching.
ValidMaskMissingOk(signal, hourly_zone) ==
    [t \in Idx(signal) |->
        \/ (signal[t] = 1 /\ hourly_zone[t] \in {"oversold", NoZone})
        \/ (signal[t] = -1 /\ hourly_zone[t] \in {"overbought", NoZone})]

\* valid_mask, from the signal left by the exit step and the aligned zone.
ValidMask(signal, hourly_zone) ==
    [t \in Idx(signal) |->
        \/ (signal[t] = 1 /\ hourly_zone[t] = "oversold")
        \/ (signal[t] = -1 /\ hourly_zone[t] = "overbought")]

\* A slip in the scale-in step: the "still in a long trade" test left out.
DoubleDownAnySignal(close, signal, entry_price, entry) ==
    [t \in Idx(close) |->
        IF signal[t] = -1 /\ AboveThreshold(close[t], entry_price[t]) /\ entry[t] = 0
        THEN -2
        ELSE IF BelowThreshold(close[t], entry_price[t]) /\ entry[t] = 0
        THEN 2
        ELSE 0]

\* double_down: 2 on dd_long, then -2 on dd_short, else 0.
DoubleDown(close, signal, entry_price, entry) ==
    [t \in Idx(close) |->
        IF signal[t] = -1 /\ AboveThreshold(close[t], entry_price[t]) /\ entry[t] = 0
        THEN -2
        ELSE IF signal[t] = 1 /\ BelowThreshold(close[t], entry_price[t]) /\ entry[t] = 0
        THEN 2
        ELSE 0]

\* df.loc[mask, column] = value
SetWhere(col, mask, value) == [t \in Idx(col) |-> IF mask[t] THEN value ELSE col[t]]
Not(mask) == [t \in Idx(mask) |-> ~mask[t]]

\* m15_df.loc[exit_mask, "signal"] = 0 ; m15_df.loc[exit_mask, "reason"] = "Exit ..."
ExitedSignal(signal, exit_mask) == SetWhere(signal, exit_mask, 0)
ExitedReason(reason, exit_mask) == SetWhere(reason, exit_mask, ExitReason)

\* A slip in the reason clearing: the mask not negated.
FilteredReasonInverted(reason, valid_mask) == SetWhere(reason, valid_mask, "")

\* m15_df.loc[~valid_mask, "signal"] = 0 ; m15_df.loc[~valid_mask, "reason"] = ""
FilteredSignal(signal, valid_mask) == SetWhere(signal, Not(valid_mask), 0)
FilteredReason(reason, valid_mask) == SetWhere(reason, Not(valid_mask), "")

\* The whole of multi_tf_filter: the frame it leaves in (and returns as) m15_df.
\* The exit step runs only when the hourly frame has a reference column.
MultiTfFilter(df, hr, al) ==
    LET entry == EntrySignal(df.signal)
        entry_price == EntryPrice(df.Close, entry)
        exit_mask ==
            IF HasRefCol(hr)
            THEN ExitMask(df.Close, df.signal, entry_price, ReindexFfill(hr.BB_M, al, NaN))
            ELSE [t \in Idx(df.Close) |-> FALSE]
        signal1 == ExitedSignal(df.signal, exit_mask)
        reason1 == IF HasRefCol(hr) THEN ExitedReason(df.reason, exit_mask) ELSE df.reason
        valid_mask == ValidMask(signal1, ReindexFfill(hr.zone, al, NoZone))
        signal2 == FilteredSignal(signal1, valid_mask)
        reason2 == FilteredReason(reason1, valid_mask)
    IN  [Close |-> df.Close,
         signal |-> signal2,
         reason |-> reason2,
         entry_signal |-> entry,
         entry_price |-> entry_price,
         double_down |-> DoubleDown(df.Close, signal2, entry_price, entry)]

\* --------------------------------------------------------- backtest_signals
\* df.get(name, pd.Series(0, index=df.index))
GetCol(df, name) ==
    IF name \in DOMAIN df THEN df[name] ELSE [t \in Idx(df.Close) |-> 0]

\* A slip in the position loop: the held size not carried, the signal taken.
PosStepFromSignal(sig, ent, ddown, prev_pos) ==
    IF sig = 0 THEN 0
    ELSE IF ent # 0 THEN ent
    ELSE IF ddown # 0 THEN ddown
    ELSE sig

\* A slip in the position loop: the entry event tested before the signal.
PosStepEntryFirst(sig, ent, ddown, prev_pos) ==
    IF ent # 0 THEN ent
    ELSE IF ddown # 0 THEN ddown
    ELSE IF sig = 0 THEN 0
    ELSE prev_pos

\* A slip in the position loop: a scale-in added to the position held.
PosStepAccumulate(sig, ent, ddown, prev_pos) ==
    IF sig = 0 THEN 0
    ELSE IF ent # 0 THEN ent
    ELSE IF ddown # 0 THEN prev_pos + ddown
    ELSE prev_pos

\* One turn of the position loop.
PosStep(sig, ent, ddown, prev_pos) ==
    IF sig = 0 THEN 0
    ELSE IF ent # 0 THEN ent
    ELSE IF ddown # 0 THEN ddown
    ELSE prev_pos

RECURSIVE PositionAt(_, _, _, _)
PositionAt(signal, entry, dd, t) ==
    IF t = 0 THEN 0
    ELSE PosStep(signal[t], entry[t], dd[t], PositionAt(signal, entry, dd, t - 1))

Position(df) ==
    LET entry == GetCol(df, "entry_signal")
        dd == GetCol(df, "double_down")
    IN  [t \in Idx(df.Close) |-> PositionAt(df.signal, entry, dd, t)]

\* Exact fractions <<numerator, denominator>>, denominator > 0, lowest terms.
RECURSIVE Gcd(_, _)
Gcd(a, b) == IF b = 0 THEN a ELSE Gcd(b, a % b)
Frac(n, d) == LET g == Gcd(Abs(n), d) IN <<n \div g, d \div g>>
FMul(x, y) == Frac(x[1] * y[1], x[2] * y[2])

\* A slip in the strategy return: the position not shifted (look-ahead).
GrowthLookAhead(close, pos, t) ==
    IF t = 1 THEN Frac(1, 1)
    ELSE Frac(close[t - 1] + (close[t] - close[t - 1]) * pos[t], close[t - 1])

\* 1 + strat_ret[t], where strat_ret = pct_ret * position.shift(1).fillna(0) and
\* pct_ret = Close.pct_change().fillna(0.0).
Growth(close, pos, t) ==
    IF t = 1 THEN Frac(1, 1)
    ELSE Frac(close[t - 1] + (close[t] - close[t - 1]) * pos[t - 1], close[t - 1])

\* (1 + strat_ret).cumprod()
RECURSIVE CumProd(_, _, _)
CumProd(close, pos, t) ==
    IF t = 0 THEN Frac(1, 1)
    ELSE FMul(CumProd(close, pos, t - 1), Growth(close, pos, t))

\* equity = (1 + strat_ret).cumprod() * initial_capital
EquityAt(close, pos, capital, t) == FMul(CumProd(close, pos, t), Frac(capital, 1))
Equity(close, pos, capital) ==
    [t \in Idx(close) |-> EquityAt(close, pos, capital, t)]

\* ------------------------------------------------------------ trend_analyze
\* Sum of close[from..to].
RECURSIVE SumRange(_, _, _)
SumRange(close, from, to) ==
    IF to < from THEN 0 ELSE close[to] + SumRange(close, from, to - 1)

\* A slip in sma: rolling(window) without min_periods=1, so the mean is missing
\* until the window is full.
SmaAtFullWindow(close, window, t) ==
    IF t < window THEN <<0, 0>>
    ELSE <<SumRange(close, t - window + 1, t), window>>

\* sma: Close.rolling(window=window, min_periods=1).mean() at row t, as the pair
\* <<sum, count>> over the last min(t, window) rows; count 0 is a missing mean.
SmaAt(close, window, t) ==
    LET from == IF t > window THEN t - window + 1 ELSE 1
    IN  <<SumRange(close, from, t), t - from + 1>>

Sma(close, window) == [t \in Idx(close) |-> SmaAt(close, window, t)]

\* Close > SMA; False against a missing mean.
GtMean(c, m) == m[2] > 0 /\ c * m[2] > m[1]

\* trend = (Close > SMA).astype(int).replace({0: -1})
TrendAnalyze(df, window) ==
    LET sma_col == Sma(df.Close, window)
    IN  [Close |-> df.Close,
         SMA |-> sma_col,
         trend |-> [t \in Idx(df.Close) |->
                       IF GtMean(df.Close[t], sma_col[t]) THEN 1 ELSE -1]]

\* ------------------------------------------------------------------ actions
\* The 15-minute pipeline before any bar is loaded.
InitPipeline ==
    /\ m15_df = [Close |-> <<>>, signal |-> <<>>, reason |-> <<>>]
    /\ align = <<>>
    /\ m15_in = m15_df
    /\ position = <<>>
    /\ equity = <<>>
    /\ pc = "load"

\* The pipeline of main: the daily frame has been through trend_analyze and is
\* handed, unread, to multi_tf_filter.
Init ==
    /\ InitPipeline
    /\ hourly_df \in {[zone |-> <<>>], [zone |-> <<>>, BB_M |-> <<>>]}
    /\ sma_window = MaxWindow
    /\ daily_df = TrendAnalyze([Close |-> <<100, 102, 98>>], MaxWindow)
    /\ tpc = "done"

\* The hourly frame with one more row (zone_analyze's zone and BB_M of that hour).
HourlyAppend(hr, z, r) ==
    IF HasRefCol(hr)
    THEN [zone |-> Append(hr.zone, z), BB_M |-> Append(hr.BB_M, r)]
    ELSE [zone |-> Append(hr.zone, z)]

\* bollinger's rolling(window).mean(): NaN on the first window-1 hourly rows and
\* a number on every row after them; a frame without the column takes no value.
WarmUpOk(hr, r) ==
    IF HasRefCol(hr)
    THEN r = NaN => \A k \in Idx(hr.BB_M) : hr.BB_M[k] = NaN
    ELSE r = NaN

\* One more 15-minute bar from the loader and the trigger, with the hourly row
\* that opens at it, if any.
LoadBar ==
    /\ pc = "load"
    /\ Len(m15_df.Close) < MaxBars
    /\ \E c \in Prices, s \in Signals :
          m15_df' = [Close |-> Append(m15_df.Close, c),
                     signal |-> Append(m15_df.signal, s),
                     reason |-> Append(m15_df.reason, TriggerReason(s))]
    /\ \/ /\ hourly_df' = hourly_df
          /\ align' = Append(align, Len(hourly_df.zone))
       \/ /\ \E z \in Zones, r \in {NaN, RefLevel} :
                /\ WarmUpOk(hourly_df, r)
                /\ hourly_df' = HourlyAppend(hourly_df, z, r)
          /\ align' = Append(align, Len(hourly_df.zone) + 1)
    /\ m15_in' = m15_df'
    /\ UNCHANGED <<position, equity, pc>>
    /\ UNCHANGED trendVars

\* m15_df = multi_tf_filter(m15_df, hourly_df, daily_df)
RunFilter ==
    /\ pc = "load"
    /\ Len(m15_df.Close) >= 1
    /\ m15_df' = MultiTfFilter(m15_df, hourly_df, align)
    /\ pc' = "backtest"
    /\ UNCHANGED <<hourly_df, align, m15_in, position, equity>>
    /\ UNCHANGED trendVars

\* A slip in backtest_signals: the position series stored on the caller's frame
\* (no .copy(), df["position"] = position).
RunBacktestInPlace ==
    /\ pc = "backtest"
    /\ position' = Position(m15_df)
    /\ equity' = Equity(m15_df.Close, Position(m15_df), InitialCapital)
    /\ m15_df' = [c \in DOMAIN m15_df \cup {"position"} |->
                     IF c = "position" THEN Position(m15_df) ELSE m15_df[c]]
    /\ pc' = "done"
    /\ UNCHANGED <<hourly_df, align, m15_in>>
    /\ UNCHANGED trendVars

\* equity = backtest_signals(m15_df)
RunBacktest ==
    /\ pc = "backtest"
    /\ position' = Position(m15_df)
    /\ equity' = Equity(m15_df.Close, Position(m15_df), InitialCapital)
    /\ pc' = "done"
    /\ UNCHANGED <<m15_df, hourly_df, align, m15_in>>
    /\ UNCHANGED trendVars

Next == LoadBar \/ RunFilter \/ RunBacktest

Spec == Init /\ [][Next]_vars

\* The same pipeline on bars that move by tens of percent: LoadBar with Closes
\* from WidePrices and the hourly reference level WideRefLevel.
LoadWide ==
    /\ pc = "load"
    /\ Len(m15_df.Close) < MaxBars
    /\ \E c \in WidePrices, s \in Signals :
          m15_df' = [Close |-> Append(m15_df.Close, c),
                     signal |-> Append(m15_df.signal, s),
                     reason |-> Append(m15_df.reason, TriggerReason(s))]
    /\ \/ /\ hourly_df' = hourly_df
          /\ align' = Append(align, Len(hourly_df.zone))
       \/ /\ \E z \in Zones, r \in {NaN, WideRefLevel} :
                /\ WarmUpOk(hourly_df, r)
                /\ hourly_df' = HourlyAppend(hourly_df, z, r)
          /\ align' = Append(align, Len(hourly_df.zone) + 1)
    /\ m15_in' = m15_df'
    /\ UNCHANGED <<position, equity, pc>>
    /\ UNCHANGED trendVars

NextWide == LoadWide \/ RunFilter \/ RunBacktest

SpecWide == Init /\ [][NextWide]_vars

\* The daily branch alone: daily bars are loaded, then trend_analyze runs.
InitTrend ==
    /\ InitPipeline
    /\ hourly_df = [zone |-> <<>>]
    /\ sma_window \in 1..MaxWindow
    /\ daily_df = [Close |-> <<>>]
    /\ tpc = "load"

\* daily_df = resample_df(raw_df, "1D"): one more daily bar.
LoadDaily ==
    /\ tpc = "load"
    /\ Len(daily_df.Close) < MaxDaily
    /\ \E c \in Prices : daily_df' = [Close |-> Append(daily_df.Close, c)]
    /\ UNCHANGED <<sma_window, tpc>>
    /\ UNCHANGED pipeVars

\* daily_df = trend_analyze(daily_df, sma_window=...)
RunTrend ==
    /\ tpc = "load"
    /\ Len(daily_df.Close) >= 1
    /\ daily_df' = TrendAnalyze(daily_df, sma_window)
    /\ tpc' = "done"
    /\ UNCHANGED sma_window
    /\ UNCHANGED pipeVars

NextTrend == LoadDaily \/ RunTrend

SpecTrend == InitTrend /\ [][NextTrend]_vars

\* ------------------------------------------------- what the claims speak of
Bars == Idx(m15_df.Close)
\* multi_tf_filter has returned: m15_df holds its output, m15_in its input.
Filtered == pc # "load"
Backtested == pc = "done"
\* The hourly zone and reference level carried forward onto bar t.
ZoneAt(t) == IF align[t] = 0 THEN NoZone ELSE hourly_df.zone[align[t]]
RefAt(t) ==
    IF HasRefCol(hourly_df) /\ align[t] > 0 THEN hourly_df.BB_M[align[t]] ELSE NaN
\* The last bar at or before t that carries an entry event (0: none).
LastEntryBar(t) ==
    LET es == {k \in 1..t : m15_df.entry_signal[k] # 0}
    IN  IF es = {} THEN 0 ELSE CHOOSE k \in es : \A j \in es : j <= k
\* Its Close: the entry price the code compares against.
LastEntryClose(t) == m15_df.Close[LastEntryBar(t)]

\* The running average entry of the specification: the unweighted mean over the
\* entry fill and the scale-in fills of the position open at bar t, as the pair
\* <<sum of the fill prices, number of fills>>.
FillBars(t) ==
    {k \in 1..t : k >= LastEntryBar(t)
                  /\ (k = LastEntryBar(t) \/ m15_df.double_down[k] # 0)}
RECURSIVE SumClose(_)
SumClose(ks) ==
    IF ks = {} THEN 0
    ELSE LET k == CHOOSE x \in ks : TRUE IN m15_df.Close[k] + SumClose(ks \ {k})
AvgEntry(t) == <<SumClose(FillBars(t)), Cardinality(FillBars(t))>>
\* Close c has reached average a scaled by pct percent, from above or from below.
AtLeastPctOfAvg(c, a, pct) == a[2] > 0 /\ c * 100 * a[2] >= a[1] * pct
AtMostPctOfAvg(c, a, pct) == a[2] > 0 /\ c * 100 * a[2] <= a[1] * pct
BelowPctOfAvg(c, a, pct) == a[2] > 0 /\ c * 100 * a[2] < a[1] * pct
AbovePctOfAvg(c, a, pct) == a[2] > 0 /\ c * 100 * a[2] > a[1] * pct

\* ---------------------------------------------------------------------- C1
\* C1: in the output of multi_tf_filter the final signal is +1 only on bars
\* whose carried-forward hourly zone is oversold and -1 only on bars whose zone
\* is overbought; a bar whose zone is neutral or undefined has final signal 0
\* and an empty reason, whatever its price and raw signal.
C1_ZoneGate ==
    Filtered =>
        \A t \in Bars :
            /\ m15_df.signal[t] = 1 => ZoneAt(t) = "oversold"
            /\ m15_df.signal[t] = -1 => ZoneAt(t) = "overbought"
            /\ ZoneAt(t) \in {"neutral", NoZone} =>
                   m15_df.signal[t] = 0 /\ m15_df.reason[t] = ""

\* A raw signal on a bar before every hourly row and one on a neutral bar are
\* both filtered, while another bar keeps a long signal.
C1_Witness ==
    /\ Filtered
    /\ \E t, u, v \in Bars :
          /\ m15_in.signal[t] # 0 /\ ZoneAt(t) = NoZone /\ m15_df.signal[t] = 0
          /\ m15_in.signal[u] # 0 /\ ZoneAt(u) = "neutral" /\ m15_df.reason[u] = ""
          /\ m15_df.signal[v] = 1

\* ---------------------------------------------------------------------- C2
\* C2 as stated: for every bar t > 1 whose previous bar ends long, the final
\* signal at t is 0 whenever Close[t] >= the aligned reference level or
\* Close[t] >= average-entry * 1.02, and symmetrically for a short, the
\* average-entry being the running mean over the entry fill and the scale-in
\* fills (stated for hourly frames that carry a reference column).
C2_AverageEntryExit ==
    (Filtered /\ HasRefCol(hourly_df)) =>
        \A t \in Bars \ {1} :
            /\ (/\ m15_df.signal[t - 1] = 1
                /\ \/ GEq(m15_df.Close[t], RefAt(t))
                   \/ AtLeastPctOfAvg(m15_df.Close[t], AvgEntry(t - 1), 100 + ProfitPct))
               => m15_df.signal[t] = 0
            /\ (/\ m15_df.signal[t - 1] = -1
                /\ \/ LEq(m15_df.Close[t], RefAt(t))
                   \/ AtMostPctOfAvg(m15_df.Close[t], AvgEntry(t - 1), 100 - ProfitPct))
               => m15_df.signal[t] = 0

\* C2 as amended: when the hourly frame carries a reference column, for every
\* bar t > 1 whose previous bar ends long the final signal at t is 0 whenever
\* Close[t] >= the aligned reference level or Close[t] >= 1.02 * the Close of
\* the most recent entry-event bar at or before t; symmetrically for a short
\* with <= and 0.98.  The entry price is never averaged over scale-ins.
C2_EntryPriceExit ==
    (Filtered /\ HasRefCol(hourly_df)) =>
        \A t \in Bars \ {1} :
            /\ (/\ m15_df.signal[t - 1] = 1
                /\ \/ GEq(m15_df.Close[t], RefAt(t))
                   \/ m15_df.Close[t] * 100 >= LastEntryClose(t) * (100 + ProfitPct))
               => m15_df.signal[t] = 0
            /\ (/\ m15_df.signal[t - 1] = -1
                /\ \/ LEq(m15_df.Close[t], RefAt(t))
                   \/ m15_df.Close[t] * 100 <= LastEntryClose(t) * (100 - ProfitPct))
               => m15_df.signal[t] = 0

\* A long that stays in an oversold zone below the reference level, after a
\* scale-in, is taken flat by the 2% target over its entry price alone.
C2_Witness ==
    /\ Filtered /\ HasRefCol(hourly_df)
    /\ \E t \in Bars \ {1} :
          /\ m15_df.signal[t - 1] = 1 /\ m15_in.signal[t] = 1
          /\ ZoneAt(t) = "oversold" /\ ~GEq(m15_df.Close[t], RefAt(t))
          /\ m15_df.Close[t] * 100 >= LastEntryClose(t) * (100 + ProfitPct)
          /\ m15_df.signal[t] = 0

\* ---------------------------------------------------------------------- C3
\* The bars on which the exit rule of multi_tf_filter fires while a position
\* was held on the previous bar: its exit_mask over the frame it was given.
ExitFires(t) ==
    /\ HasRefCol(hourly_df)
    /\ t > 1 /\ m15_df.signal[t - 1] # 0
    /\ ExitMask(m15_in.Close, m15_in.signal, m15_df.entry_price,
                ReindexFfill(hourly_df.BB_M, align, NaN))[t]

\* C3: every bar on which the exit rule fires carries, in the returned frame,
\* final signal 0 together with a non-empty exit reason tag.
C3_ExitTagged ==
    Filtered =>
        \A t \in Bars :
            ExitFires(t) => m15_df.signal[t] = 0 /\ m15_df.reason[t] # ""

\* ---------------------------------------------------------------------- C4
\* C4 as stated: on a bar where the position stays open and no entry event is
\* set, a Close more than 1% adverse to the running average entry price emits
\* a scale-in event (+2 long, -2 short), every scale-in event is made by such
\* an adverse move against the running average, and the size (absolute
\* multiplier) grows by 1 on it.
C4_AverageScaleIn ==
    Backtested =>
        \A t \in Bars \ {1} :
            LET avg == AvgEntry(t - 1)
                c == m15_df.Close[t]
                open == m15_df.signal[t] # 0 /\ m15_df.entry_signal[t] = 0
            IN  /\ (open /\ m15_df.signal[t] = 1
                         /\ BelowPctOfAvg(c, avg, 100 - ThresholdPct))
                   => m15_df.double_down[t] = 2
                /\ (open /\ m15_df.signal[t] = -1
                         /\ AbovePctOfAvg(c, avg, 100 + ThresholdPct))
                   => m15_df.double_down[t] = -2
                /\ m15_df.double_down[t] = 2
                   => BelowPctOfAvg(c, avg, 100 - ThresholdPct)
                /\ m15_df.double_down[t] = -2
                   => AbovePctOfAvg(c, avg, 100 + ThresholdPct)
                /\ m15_df.double_down[t] # 0
                   => Abs(position[t]) = Abs(position[t - 1]) + 1

\* C4 as amended: a bar carries a scale-in event +2 exactly when its final
\* signal is +1, its entry event is 0 and its Close is below 0.99 * the Close of
\* the most recent entry-event bar, and -2 exactly when its final signal is -1,
\* its entry event is 0 and its Close is above 1.01 * that entry Close; the
\* entry price is never re-averaged, and on a scale-in bar the effective
\* multiplier is the event itself (size 2, whatever the size before).
C4_EntryPriceScaleIn ==
    Backtested =>
        \A t \in Bars :
            LET open == m15_df.signal[t] # 0 /\ m15_df.entry_signal[t] = 0
                c == m15_df.Close[t]
            IN  /\ m15_df.double_down[t] \in {-2, 0, 2}
                /\ m15_df.double_down[t] = 2 <=>
                      (/\ open /\ m15_df.signal[t] = 1
                       /\ c * 100 < LastEntryClose(t) * (100 - ThresholdPct))
                /\ m15_df.double_down[t] = -2 <=>
                      (/\ open /\ m15_df.signal[t] = -1
                       /\ c * 100 > LastEntryClose(t) * (100 + ThresholdPct))
                /\ m15_df.double_down[t] # 0 => position[t] = m15_df.double_down[t]

\* Two scale-ins in a row on one long: the second Close is adverse to the entry
\* price but not to the mean of the two earlier fills, and the size stays 2.
C4_Witness ==
    /\ Backtested
    /\ \E t \in Bars \ {1, 2} :
          /\ m15_df.entry_signal[t - 2] = 1 /\ position[t - 2] = 1
          /\ m15_df.double_down[t - 1] = 2
          /\ m15_df.double_down[t] = 2
          /\ ~BelowPctOfAvg(m15_df.Close[t], AvgEntry(t - 1), 100 - ThresholdPct)
          /\ position[t - 1] = 2 /\ position[t] = 2

\* ---------------------------------------------------------------------- C5
\* The second run of the filter: its own output as the new frame, same hourly
\* context.
SecondRun == MultiTfFilter(m15_df, hourly_df, align)

\* C5: running multi_tf_filter again on its own output, with the same hourly
\* context, yields the same final signal, entry-event, scale-in-event and
\* reason columns.
C5_Idempotent ==
    Filtered =>
        /\ SecondRun.signal = m15_df.signal
        /\ SecondRun.entry_signal = m15_df.entry_signal
        /\ SecondRun.double_down = m15_df.double_down
        /\ SecondRun.reason = m15_df.reason

\* C5 narrowed to the final-signal column alone: a second run leaves the final
\* signal unchanged.
C5_SignalIdempotent == Filtered => SecondRun.signal = m15_df.signal

\* ---------------------------------------------------------------------- C6
Sign(x) == IF x > 0 THEN 1 ELSE IF x < 0 THEN -1 ELSE 0

\* C6: at every bar the position size (absolute effective multiplier built by
\* backtest_signals from the output of multi_tf_filter) is non-negative and is
\* 0 exactly when the final signal of the bar is 0, and a non-zero multiplier
\* has the sign of the final signal.
C6_SizeMatchesDirection ==
    Backtested =>
        \A t \in Bars :
            /\ Abs(position[t]) >= 0
            /\ position[t] = 0 <=> m15_df.signal[t] = 0
            /\ position[t] # 0 => Sign(position[t]) = m15_df.signal[t]

\* ---------------------------------------------------------------------- C7
\* C7 as stated: from one bar to the next the position size never decreases
\* except by dropping to exactly 0.
C7_SizeMonotone ==
    Backtested =>
        \A t \in Bars \ {1} :
            Abs(position[t]) >= Abs(position[t - 1]) \/ position[t] = 0

\* C7 as amended: from one bar to the next the position size never decreases
\* except by dropping to exactly 0, or by restarting at 1 on a bar that carries
\* an entry event of the opposite direction (a flip of a scaled-in position).
C7_SizeMonotoneButFlip ==
    Backtested =>
        \A t \in Bars \ {1} :
            \/ Abs(position[t]) >= Abs(position[t - 1])
            \/ position[t] = 0
            \/ /\ m15_df.entry_signal[t] # 0
               /\ position[t] = m15_df.entry_signal[t]
               /\ Sign(position[t]) = -Sign(position[t - 1])

\* A long entered at size 1 and scaled in to size 2 is flipped on the next bar
\* to a short of size 1.
C7_Witness ==
    /\ Backtested
    /\ \E t \in Bars \ {1, 2} :
          /\ position[t - 2] = 1 /\ position[t - 1] = 2
          /\ position[t] = -1 /\ m15_df.entry_signal[t] = -1

\* ---------------------------------------------------------------------- C8
\* C8: every bar whose final signal is non-zero and differs from the previous
\* bar's final signal (or is the first bar) carries an entry event equal to its
\* final signal.
C8_EntryOnOpen ==
    Filtered =>
        \A t \in Bars :
            (/\ m15_df.signal[t] # 0
             /\ (t = 1 \/ m15_df.signal[t] # m15_df.signal[t - 1]))
            => m15_df.entry_signal[t] = m15_df.signal[t]

\* ---------------------------------------------------------------------- C9
ForcedCloseReason == "forced-close-at-data-end"
LastBar == Len(m15_df.Close)

\* C9 as stated: when the final signal of the last bar is non-zero, the last
\* bar carries the forced-close-at-data-end reason.
C9_ForcedCloseTagged ==
    (Backtested /\ m15_df.signal[LastBar] # 0) =>
        m15_df.reason[LastBar] = ForcedCloseReason

\* C9 as amended: when the final signal of the last bar is non-zero, no
\* forced-close reason is attached: the last bar keeps the reason the trigger
\* gave it; its signal is the raw signal, and its equity value is the same as
\* if the position were closed on that bar (multiplier 0 at the last bar).
C9_OpenAtEndUntagged ==
    (Backtested /\ m15_df.signal[LastBar] # 0) =>
        /\ m15_df.reason[LastBar] = m15_in.reason[LastBar]
        /\ m15_df.reason[LastBar] \notin {"", ExitReason, ForcedCloseReason}
        /\ m15_df.signal[LastBar] = m15_in.signal[LastBar]
        /\ equity[LastBar] =
              EquityAt(m15_df.Close, [position EXCEPT ![LastBar] = 0],
                       InitialCapital, LastBar)

\* A position entered earlier is still open, scaled in, on the last bar.
C9_Witness ==
    /\ Backtested /\ LastBar = MaxBars
    /\ m15_df.signal[LastBar] # 0
    /\ position[LastBar - 1] # 0
    /\ Abs(position[LastBar]) = 2
    /\ equity[LastBar] # equity[LastBar - 1]

\* --------------------------------------------------------------------- C10
Multipliers == {-2, -1, 0, 1, 2}

\* C10: Equity[1] is the initial capital; for every later bar t,
\* Equity[t] = Equity[t-1] * (1 + (Close[t]/Close[t-1] - 1) * m[t-1]) with m the
\* effective multiplier of the previous bar; the multiplier of bar t itself
\* never influences Equity[t]; with an all-zero signal the equity is constant.
C10_Compounding ==
    Backtested =>
        /\ equity[1] = <<InitialCapital, 1>>
        /\ \A t \in Bars \ {1} :
              equity[t] =
                  FMul(equity[t - 1],
                       Frac(m15_df.Close[t - 1]
                              + (m15_df.Close[t] - m15_df.Close[t - 1]) * position[t - 1],
                            m15_df.Close[t - 1]))
        /\ \A t \in Bars : \A m \in Multipliers :
              EquityAt(m15_df.Close, [position EXCEPT ![t] = m], InitialCapital, t)
                  = equity[t]
        /\ (\A t \in Bars : m15_df.signal[t] = 0) =>
              \A t \in Bars : equity[t] = <<InitialCapital, 1>>

\* Three bars on which the held multiplier changes and the price moves, so the
\* equity differs on every bar.
C10_Witness ==
    /\ Backtested /\ LastBar = MaxBars
    /\ position[1] # 0 /\ position[2] # position[1] /\ position[2] # 0
    /\ equity[2] # equity[1] /\ equity[3] # equity[2]
    /\ m15_df.Close[3] # m15_df.Close[2]

\* --------------------------------------------------------------------- C11
\* C11 as stated: the effective multiplier of each bar is the entry-event value
\* if it is non-zero, else the scale-in value if it is non-zero, else the
\* previous bar's multiplier, and 0 only as the last case when the signal is
\* 0; also on bars whose entry event is non-zero and final signal is 0.
C11_EntryFirst ==
    Backtested =>
        \A t \in Bars :
            LET prev == IF t = 1 THEN 0 ELSE position[t - 1]
            IN  position[t] =
                    IF m15_df.entry_signal[t] # 0 THEN m15_df.entry_signal[t]
                    ELSE IF m15_df.double_down[t] # 0 THEN m15_df.double_down[t]
                    ELSE IF m15_df.signal[t] = 0 THEN 0
                    ELSE prev

\* C11 as amended: the final signal is tested first: the multiplier is 0 when
\* the final signal is 0 (also on a bar that carries an entry event); else the
\* entry-event value if non-zero; else the scale-in value if non-zero; else the
\* previous bar's multiplier (0 before the first bar).
C11_SignalFirst ==
    Backtested =>
        \A t \in Bars :
            LET prev == IF t = 1 THEN 0 ELSE position[t - 1]
            IN  position[t] =
                    IF m15_df.signal[t] = 0 THEN 0
                    ELSE IF m15_df.entry_signal[t] # 0 THEN m15_df.entry_signal[t]
                    ELSE IF m15_df.double_down[t] # 0 THEN m15_df.double_down[t]
                    ELSE prev

\* One series with an entry event on a bar filtered to 0 (multiplier 0), an
\* entry taken, and a later bar that carries the multiplier over.
C11_Witness ==
    /\ Backtested
    /\ \E t, u \in Bars :
          /\ m15_df.entry_signal[t] # 0 /\ m15_df.signal[t] = 0 /\ position[t] = 0
          /\ u > 1 /\ m15_df.signal[u] # 0 /\ m15_df.entry_signal[u] = 0
          /\ m15_df.double_down[u] = 0 /\ position[u] = position[u - 1]
          /\ position[u] # 0

\* --------------------------------------------------------------------- C12
\* 1 + strat_ret[s] > 0, as the sign of Close[s-1] + (Close[s] - Close[s-1]) * m
\* with m the multiplier held over bar s.
FactorPositive(s) ==
    m15_df.Close[s - 1] + (m15_df.Close[s] - m15_df.Close[s - 1]) * position[s - 1] > 0
\* The price return of bar s lies strictly between -50% and +50%.
ReturnWithinHalf(s) ==
    2 * Abs(m15_df.Close[s] - m15_df.Close[s - 1]) < m15_df.Close[s - 1]

\* C12 as stated: on positive Close prices, with the multipliers the filter
\* produces and a positive initial capital, every equity value is strictly
\* positive.
C12_EquityPositive ==
    Backtested => \A t \in Bars : equity[t][1] > 0

\* C12 as amended: Equity[t] is strictly positive when, on every bar s <= t
\* after the first, the multiplier held over the bar is 0 or 1 or the bar's
\* price return lies strictly between -50% and +50%; and on such a bar
\* 1 + strat_ret is strictly positive.
C12_EquityFloor ==
    Backtested =>
        \A t \in Bars :
            (\A s \in 2..t : position[s - 1] \in {0, 1} \/ ReturnWithinHalf(s))
            => /\ equity[t][1] > 0
               /\ \A s \in 2..t : FactorPositive(s)

\* Three bars backtested, a short or doubled position carried over a bar whose
\* price moved by less than half, and the equity moved with it.
C12_Witness ==
    /\ Backtested
    /\ Len(m15_df.Close) = MaxBars
    /\ \A s \in 2..MaxBars : position[s - 1] \in {0, 1} \/ ReturnWithinHalf(s)
    /\ \E s \in 2..MaxBars :
          /\ position[s - 1] \in {-2, -1, 2}
          /\ m15_df.Close[s] # m15_df.Close[s - 1]
          /\ equity[s] # equity[s - 1]
    /\ equity[MaxBars][1] > 0

\* --------------------------------------------------------------------- C13
FilterColumns == {"entry_signal", "entry_price", "double_down"}

\* C13 as stated: after multi_tf_filter returns, the caller's m15_df has the
\* same columns and the same signal and reason values as before the call.
C13_CallerFrameUntouched ==
    Filtered =>
        /\ DOMAIN m15_df = DOMAIN m15_in
        /\ m15_df.signal = m15_in.signal
        /\ m15_df.reason = m15_in.reason

\* C13 as amended: multi_tf_filter works on the caller's m15_df in place and
\* returns that same frame: it adds the columns entry_signal, entry_price and
\* double_down and overwrites signal (each value kept or set to 0) and reason,
\* leaving Close as it was; hourly_df and daily_df are unchanged by it; and
\* backtest_signals leaves its df, hourly_df and daily_df unchanged.
C13_FrameEffects ==
    [][/\ (pc = "load" /\ pc' = "backtest") =>
             /\ hourly_df' = hourly_df
             /\ daily_df' = daily_df
             /\ DOMAIN m15_df' = DOMAIN m15_df \cup FilterColumns
             /\ m15_df'.Close = m15_df.Close
             /\ \A t \in Idx(m15_df.Close) :
                    m15_df'.signal[t] \in {0, m15_df.signal[t]}
       /\ (pc = "backtest" /\ pc' = "done") =>
             /\ m15_df' = m15_df
             /\ hourly_df' = hourly_df
             /\ daily_df' = daily_df]_vars

\* Both calls have returned: the caller's frame has the filter's columns, a
\* signal and a reason it did not have before, and nothing from the backtest.
C13_Witness ==
    /\ Backtested
    /\ DOMAIN m15_df = DOMAIN m15_in \cup FilterColumns
    /\ m15_df.signal # m15_in.signal
    /\ m15_df.reason # m15_in.reason
    /\ \E t \in Bars : position[t] # 0
    /\ Len(daily_df.trend) > 0

\* --------------------------------------------------------------------- C14
\* exit_mask of the call, at bar t.
ExitMaskAt(t) ==
    /\ HasRefCol(hourly_df)
    /\ ExitMask(m15_in.Close, m15_in.signal, m15_df.entry_price,
                ReindexFfill(hourly_df.BB_M, align, NaN))[t]

\* C14: no bar that carries a non-zero entry event (an entry from flat or a
\* direction flip) has its signal set to 0 by the profit-target /
\* reference-level exit on that same bar; stated on the bars whose hourly zone
\* admits the new position, where only the exit rule can take the signal away.
C14_NoExitOnEntryBar ==
    Filtered =>
        \A t \in Bars :
            (/\ m15_df.entry_signal[t] # 0
             /\ ZoneAt(t) = (IF m15_df.entry_signal[t] = 1 THEN "oversold"
                                                           ELSE "overbought"))
            => ~ExitMaskAt(t) /\ m15_df.signal[t] = m15_df.entry_signal[t]

\* --------------------------------------------------------------------- C15
DailyBars == Idx(daily_df.Close)
\* trend_analyze has returned.
Trended == tpc = "done"
\* The closes of the last n daily bars up to t, summed.
LastCloses(t, n) == SumRange(daily_df.Close, t - n + 1, t)

\* C15 as stated: with look-back window w, a daily bar at or after bar w is
\* labelled Up (+1) iff Close > the w-bar mean and Down (-1) otherwise, and
\* the first w-1 bars carry no trend label (neither Up nor Down).
C15_WarmUpUnlabelled ==
    Trended =>
        \A t \in DailyBars :
            /\ t >= sma_window =>
                  daily_df.trend[t] =
                      (IF daily_df.Close[t] * sma_window > LastCloses(t, sma_window)
                       THEN 1 ELSE -1)
            /\ t < sma_window => daily_df.trend[t] \notin {1, -1}

\* C15 as amended: every daily bar is labelled: Up (+1) iff Close > the mean
\* of the last min(t, w) closes and Down (-1) otherwise (Close == mean gives
\* Down); the first w-1 bars are labelled against the partial-window mean, and
\* the first bar is always Down.
C15_EveryBarLabelled ==
    Trended =>
        \A t \in DailyBars :
            LET n == IF t < sma_window THEN t ELSE sma_window
            IN  /\ daily_df.trend[t] \in {1, -1}
                /\ daily_df.trend[t] = 1 <=>
                      daily_df.Close[t] * n > LastCloses(t, n)
                /\ t = 1 => daily_df.trend[t] = -1

\* A warm-up bar labelled Up against the partial mean, and a later bar whose
\* Close equals the full-window mean labelled Down.
C15_Witness ==
    /\ Trended
    /\ \E t, u \in DailyBars :
          /\ t < sma_window /\ daily_df.trend[t] = 1
          /\ u >= sma_window /\ daily_df.trend[u] = -1
          /\ daily_df.Close[u] * sma_window = LastCloses(u, sma_window)

====
